---- MODULE Spec2Model ----
(***************************************************************************)
(* The syntax node of cmd/compile/internal/gc (syntax.go): the Val/Opt     *)
(* payload slot of a Node with its tri-state marker hasVal, and the Nodes  *)
(* container (a pointer to a slice of *Node) that backs the four sequence  *)
(* fields Ninit, Nbody, List and Rlist.                                    *)
(*                                                                         *)
(* Fatalf and a run-time panic (nil dereference, index out of range) end   *)
(* the compilation: the variable fatal records it and no call follows.     *)
(***************************************************************************)
EXTENDS Integers, Sequences, FiniteSets

\* The most elements all containers may hold together (heap bound).
MaxTotal == 3

\* Addresses of the Node objects a run may allocate, in allocation order.
NodeOrder == <<"n1", "n2", "n3">>

NodeIds == {NodeOrder[k] : k \in 1..Len(NodeOrder)}

\* Non-nil contents of the interface{} slot E (Val.U or optimizer data).
Payloads == {"p1", "p2"}

\* The four sequence fields of a Node.
SeqFields == {"Ninit", "Nbody", "List", "Rlist"}

\* The container fields the calls of a run are made on: every sequence field,
\* on both nodes, with pairs inside one node and across two.
Conts ==
    {<<"n1", "List">>, <<"n1", "Rlist">>, <<"n2", "Ninit">>, <<"n2", "Nbody">>}

\* The nodes that the runs of payload and container calls allocate.
ContNodes == {c[1] : c \in Conts}

\* Non-nil values of the Type field.
Types == {"T1"}

VARIABLES
    heap,     \* heap[n]: the Node struct at address n
    live,     \* the addresses allocated so far
    fatal,    \* "none", or why the process has aborted
    last,     \* the call made by the last step, with its arguments
    everVal,  \* history: nodes on which a SetVal has succeeded
    everOpt,  \* history: nodes on which a SetOpt of non-nil data has succeeded
    view      \* a slice that a caller got from Slice() and still holds

vars == <<heap, live, fatal, last, everVal, everOpt, view>>

----------------------------------------------------------------------------
(* Nodes: struct{ slice *[]*Node }.  The pointer is nil, or points to a    *)
(* slice cell: elems is the slice the cell holds, and with is the set of   *)
(* the other container fields whose pointer is the same address.  PtrTo(s) *)
(* is the address of a new cell.                                           *)

NilSlicePtr == [nil |-> TRUE, elems |-> <<>>, with |-> {}]

PtrTo(s) == [nil |-> FALSE, elems |-> s, with |-> {}]

ZeroNodes == [slice |-> NilSlicePtr]

\* A call's outcome: a run-time panic, or the value returned.
Panics == [panic |-> TRUE, val |-> "nil"]

Returns(v) == [panic |-> FALSE, val |-> v]

Slice(n) == IF n.slice.nil THEN <<>> ELSE n.slice.elems

\* Len dereferencing n.slice without the nil check: on nil no length is
\* returned (the call panics), shown as -1.
NodesLenNoNilCheck(n) == IF n.slice.nil THEN 0 - 1 ELSE Len(n.slice.elems)

\* Nodes.Len (Len itself names the length of a TLA+ sequence).
NodesLen(n) == IF n.slice.nil THEN 0 ELSE Len(n.slice.elems)

\* An index at or past the length clamped to the last element.
DerefClamps(n, i) ==
    IF n.slice.nil THEN Panics
    ELSE IF i < 0 THEN Panics
    ELSE IF i >= Len(n.slice.elems)
    THEN Returns(n.slice.elems[Len(n.slice.elems)])
    ELSE Returns(n.slice.elems[i + 1])

\* (*n.slice)[i]: dereferencing nil panics, and so does an index outside
\* 0..len-1.
Deref(n, i) ==
    IF n.slice.nil THEN Panics
    ELSE IF i < 0 \/ i >= Len(n.slice.elems) THEN Panics
    ELSE Returns(n.slice.elems[i + 1])

Index(n, i) == Deref(n, i)

First(n) == Deref(n, 0)

Second(n) == Deref(n, 1)

\* &(*n.slice)[i]: the address of slot i, here the slot's position.
Addr(n, i) ==
    IF Deref(n, i).panic THEN [panic |-> TRUE, slot |-> 0 - 1]
    ELSE [panic |-> FALSE, slot |-> i]

----------------------------------------------------------------------------
(* Node: the fields the payload and container methods read and write.      *)

ZeroNode ==
    [Ninit |-> ZeroNodes, Nbody |-> ZeroNodes,
     List |-> ZeroNodes, Rlist |-> ZeroNodes,
     Left |-> "nil", Type |-> "nil",
     E |-> "nil", hasVal |-> 0]

\* Val{U}; Val{} is Val{nil}.
MkVal(u) == [U |-> u]

Val(n) == IF n.hasVal # 1 THEN MkVal("nil") ELSE MkVal(n.E)

\* Opt testing the marker of Val (+1) in place of -1.
OptWrongMarker(n) == IF n.hasVal # 1 THEN "nil" ELSE n.E

Opt(n) == IF n.hasVal # 0 - 1 THEN "nil" ELSE n.E

----------------------------------------------------------------------------
NoCall ==
    [op |-> "init", n |-> "-", f |-> "-", n2 |-> "-", f2 |-> "-",
     i |-> 0, x |-> "-", a |-> <<>>, was |-> 0]

\* No container.
NoLoc == <<"-", "-">>

\* A slice value held by a caller: its elements, and in of the container
\* whose backing array it shares (NoLoc when it shares none).
NoView == [of |-> NoLoc, elems |-> <<>>]

Call(op, n, x) == [NoCall EXCEPT !.op = op, !.n = n, !.x = x]

Init ==
    /\ heap = [n \in NodeIds |-> ZeroNode]
    /\ live = {}
    /\ fatal = "none"
    /\ last = NoCall
    /\ everVal = {}
    /\ everOpt = {}
    /\ view = NoView

Running == fatal = "none"

\* new(Node): the next free address, holding the zero value of the struct.
NewNode(n) ==
    /\ Running
    /\ Cardinality(live) < Len(NodeOrder)
    /\ n = NodeOrder[Cardinality(live) + 1]
    /\ live' = live \cup {n}
    /\ heap' = [heap EXCEPT ![n] = ZeroNode]
    /\ last' = Call("NewNode", n, "-")
    /\ UNCHANGED <<fatal, everVal, everOpt, view>>

\* n.Left = m: the parent holds the address of the child, not a copy of it.
SetLeft(n, m) ==
    /\ Running
    /\ n \in live
    /\ heap' = [heap EXCEPT ![n].Left = m]
    /\ last' = Call("SetLeft", n, m)
    /\ UNCHANGED <<live, fatal, everVal, everOpt, view>>

\* n.Type = t.
SetType(n, t) ==
    /\ Running
    /\ n \in live
    /\ heap' = [heap EXCEPT ![n].Type = t]
    /\ last' = Call("SetType", n, t)
    /\ UNCHANGED <<live, fatal, everVal, everOpt, view>>

\* Fatalf(msg): reports the internal error and ends the process; the
\* statements after the call never run.
Fatalf(msg) ==
    /\ fatal' = msg
    /\ UNCHANGED <<heap, live, everVal, everOpt, view>>

\* SetVal with a value receiver: the marker and payload of a copy are set.
SetValOnCopy(n, v) ==
    /\ Running
    /\ n \in live
    /\ last' = Call("SetVal", n, v.U)
    /\ IF heap[n].hasVal = 0 - 1
       THEN Fatalf("have Opt")
       ELSE UNCHANGED <<heap, live, fatal, everVal, everOpt, view>>

\* SetVal without the hasVal == -1 check.
SetValNoCheck(n, v) ==
    /\ Running
    /\ n \in live
    /\ last' = Call("SetVal", n, v.U)
    /\ heap' = [heap EXCEPT ![n].hasVal = 1, ![n].E = v.U]
    /\ everVal' = everVal \cup {n}
    /\ UNCHANGED <<live, fatal, everOpt, view>>

\* SetVal that accepts only a node whose marker is unset.
SetValOnce(n, v) ==
    /\ Running
    /\ n \in live
    /\ last' = Call("SetVal", n, v.U)
    /\ IF heap[n].hasVal # 0
       THEN Fatalf("have Opt")
       ELSE /\ heap' = [heap EXCEPT ![n].hasVal = 1, ![n].E = v.U]
            /\ everVal' = everVal \cup {n}
            /\ UNCHANGED <<live, fatal, everOpt, view>>

SetVal(n, v) ==
    /\ Running
    /\ n \in live
    /\ last' = Call("SetVal", n, v.U)
    /\ IF heap[n].hasVal = 0 - 1
       THEN Fatalf("have Opt")
       ELSE /\ heap' = [heap EXCEPT ![n].hasVal = 1, ![n].E = v.U]
            /\ everVal' = everVal \cup {n}
            /\ UNCHANGED <<live, fatal, everOpt, view>>

\* SetOpt without the hasVal == +1 check.
SetOptNoCheck(n, x) ==
    /\ Running
    /\ n \in live
    /\ last' = Call("SetOpt", n, x)
    /\ IF x = "nil" /\ heap[n].hasVal >= 0
       THEN UNCHANGED <<heap, live, fatal, everVal, everOpt, view>>
       ELSE /\ heap' = [heap EXCEPT ![n].hasVal = 0 - 1, ![n].E = x]
            /\ everOpt' = IF x = "nil" THEN everOpt ELSE everOpt \cup {n}
            /\ UNCHANGED <<live, fatal, everVal, view>>

\* SetOpt that ignores nil only while the marker is unset (hasVal == 0 in
\* place of hasVal >= 0).
SetOptNilOnlyUnset(n, x) ==
    /\ Running
    /\ n \in live
    /\ last' = Call("SetOpt", n, x)
    /\ IF x = "nil" /\ heap[n].hasVal = 0
       THEN UNCHANGED <<heap, live, fatal, everVal, everOpt, view>>
       ELSE IF heap[n].hasVal = 1
       THEN Fatalf("have Val")
       ELSE /\ heap' = [heap EXCEPT ![n].hasVal = 0 - 1, ![n].E = x]
            /\ everOpt' = IF x = "nil" THEN everOpt ELSE everOpt \cup {n}
            /\ UNCHANGED <<live, fatal, everVal, view>>

\* SetOpt without the early return for nil.
SetOptStoresNil(n, x) ==
    /\ Running
    /\ n \in live
    /\ last' = Call("SetOpt", n, x)
    /\ IF heap[n].hasVal = 1
       THEN Fatalf("have Val")
       ELSE /\ heap' = [heap EXCEPT ![n].hasVal = 0 - 1, ![n].E = x]
            /\ everOpt' = IF x = "nil" THEN everOpt ELSE everOpt \cup {n}
            /\ UNCHANGED <<live, fatal, everVal, view>>

\* SetOpt that stores before it tests the marker.
SetOptStoresFirst(n, x) ==
    /\ Running
    /\ n \in live
    /\ last' = Call("SetOpt", n, x)
    /\ IF x = "nil" /\ heap[n].hasVal >= 0
       THEN UNCHANGED <<heap, live, fatal, everVal, everOpt, view>>
       ELSE /\ heap' = [heap EXCEPT ![n].hasVal = 0 - 1, ![n].E = x]
            /\ fatal' = IF heap[n].hasVal = 1 THEN "have Val" ELSE fatal
            /\ everOpt' = IF x = "nil" \/ heap[n].hasVal = 1
                          THEN everOpt ELSE everOpt \cup {n}
            /\ UNCHANGED <<live, everVal, view>>

\* SetOpt whose clearing with nil also takes the marker back to unset.
SetOptNilResets(n, x) ==
    /\ Running
    /\ n \in live
    /\ last' = Call("SetOpt", n, x)
    /\ IF x = "nil" /\ heap[n].hasVal >= 0
       THEN UNCHANGED <<heap, live, fatal, everVal, everOpt, view>>
       ELSE IF heap[n].hasVal = 1
       THEN Fatalf("have Val")
       ELSE /\ heap' = [heap EXCEPT ![n].hasVal = IF x = "nil" THEN 0 ELSE 0 - 1,
                                    ![n].E = x]
            /\ everOpt' = IF x = "nil" THEN everOpt ELSE everOpt \cup {n}
            /\ UNCHANGED <<live, fatal, everVal, view>>

SetOpt(n, x) ==
    /\ Running
    /\ n \in live
    /\ last' = Call("SetOpt", n, x)
    /\ IF x = "nil" /\ heap[n].hasVal >= 0
       THEN UNCHANGED <<heap, live, fatal, everVal, everOpt, view>>
       ELSE IF heap[n].hasVal = 1
       THEN Fatalf("have Val")
       ELSE /\ heap' = [heap EXCEPT ![n].hasVal = 0 - 1, ![n].E = x]
            /\ everOpt' = IF x = "nil" THEN everOpt ELSE everOpt \cup {n}
            /\ UNCHANGED <<live, fatal, everVal, view>>

----------------------------------------------------------------------------
(* The Nodes methods.  A receiver or argument of type *Nodes is the field  *)
(* f of the node at address n; two such pointers may be the same field.    *)

\* The slice pointer a field holds, and the heap after storing one.
SlicePtr(h, n, f) == h[n][f].slice

StoreSlice(h, n, f, p) == [h EXCEPT ![n][f].slice = p]

\* The fields whose pointer is the one field f of n holds.
Cell(h, n, f) == {<<n, f>>} \cup SlicePtr(h, n, f).with

RECURSIVE Forget(_, _, _)
Forget(h, locs, l) ==
    IF locs = {} THEN h
    ELSE LET x == CHOOSE x \in locs : TRUE
             p == SlicePtr(h, x[1], x[2])
         IN  Forget(StoreSlice(h, x[1], x[2], [p EXCEPT !.with = @ \ {l}]),
                    locs \ {x}, l)

RECURSIVE Join(_, _, _)
Join(h, locs, l) ==
    IF locs = {} THEN h
    ELSE LET x == CHOOSE x \in locs : TRUE
             p == SlicePtr(h, x[1], x[2])
         IN  Join(StoreSlice(h, x[1], x[2], [p EXCEPT !.with = @ \cup {l}]),
                  locs \ {x}, l)

RECURSIVE WriteAll(_, _, _)
WriteAll(h, locs, s) ==
    IF locs = {} THEN h
    ELSE LET x == CHOOSE x \in locs : TRUE
             p == SlicePtr(h, x[1], x[2])
         IN  WriteAll(StoreSlice(h, x[1], x[2], [p EXCEPT !.elems = s]),
                      locs \ {x}, s)

\* n.slice = p, for p nil or the address of a new cell.
AssignNew(h, n, f, p) ==
    StoreSlice(Forget(h, SlicePtr(h, n, f).with, <<n, f>>), n, f, p)

\* n.slice = n2.slice: afterwards both fields hold the same address.
AssignPtr(h, n, f, n2, f2) ==
    IF <<n, f>> = <<n2, f2>> THEN h
    ELSE IF SlicePtr(h, n2, f2).nil THEN AssignNew(h, n, f, NilSlicePtr)
    ELSE LET h1 == Forget(h, SlicePtr(h, n, f).with, <<n, f>>)
             cell == Cell(h1, n2, f2)
             h2 == Join(h1, cell, <<n, f>>)
         IN  StoreSlice(h2, n, f,
                 [nil |-> FALSE, elems |-> SlicePtr(h1, n2, f2).elems,
                  with |-> cell])

\* *n.slice = s: seen through every pointer to the cell.
WriteCell(h, n, f, s) == WriteAll(h, Cell(h, n, f), s)

RECURSIVE SumLen(_, _)
SumLen(h, locs) ==
    IF locs = {} THEN 0
    ELSE LET l == CHOOSE l \in locs : TRUE
         IN  NodesLen(h[l[1]][l[2]]) + SumLen(h, locs \ {l})

\* The number of elements all containers hold together.
Total(h) == SumLen(h, NodeIds \X SeqFields)

\* The slices over the allocated nodes that fit the heap bound.
SeqsUpTo(S, k) == UNION {[1..m -> S] : m \in 0..k}

\* A call of a Nodes method; was is the receiver's Len() when it is made.
CallNodes(op, n, f, n2, f2, i, x, a) ==
    [op |-> op, n |-> n, f |-> f, n2 |-> n2, f2 |-> f2,
     i |-> i, x |-> x, a |-> a, was |-> NodesLen(heap[n][f])]

\* The slice a caller holds once it shares no container's backing array.
Stale(v) == [v EXCEPT !.of = NoLoc]

\* What the call c, made in heap h, leaves of the slice v a caller holds.
\* Set, Set1 and a pointer assignment give the container another array; a
\* moved pointer takes its array along; append writes in place when the
\* capacity allows and copies to a new array when it does not.
ViewsAfter(v, h, c) ==
    LET dst == <<c.n, c.f>>
        src == <<c.n2, c.f2>>
        p == SlicePtr(h, c.n, c.f)
    IN  CASE v.of = NoLoc -> {v}
          [] c.op \in {"Set", "Set1"} ->
                 {IF v.of = dst THEN Stale(v) ELSE v}
          [] c.op = "SetIndex" ->
                 {IF v.of = dst /\ 0 <= c.i /\ c.i < Len(v.elems)
                  THEN [v EXCEPT !.elems[c.i + 1] = c.x]
                  ELSE v}
          [] c.op = "Append" ->
                 IF v.of = dst /\ Len(c.a) > 0 THEN {v, Stale(v)} ELSE {v}
          [] c.op = "MoveNodes" ->
                 {IF dst = src THEN (IF v.of = dst THEN Stale(v) ELSE v)
                  ELSE IF v.of = src THEN [v EXCEPT !.of = dst]
                  ELSE IF v.of = dst THEN Stale(v)
                  ELSE v}
          [] c.op = "AppendNodes" ->
                 IF SlicePtr(h, c.n2, c.f2).nil THEN {v}
                 ELSE IF p.nil
                 THEN {IF v.of = src THEN [v EXCEPT !.of = dst] ELSE v}
                 ELSE IF v.of = src THEN {Stale(v)}
                 ELSE IF v.of = dst THEN {v, Stale(v)}
                 ELSE {v}
          [] OTHER -> {v}

\* s := n.Slice(): the caller holds *n.slice, or nil for a nil pointer.
TakeSlice(n, f) ==
    /\ Running
    /\ n \in live
    /\ view' = [of |-> IF SlicePtr(heap, n, f).nil THEN NoLoc ELSE <<n, f>>,
                elems |-> Slice(heap[n][f])]
    /\ last' = CallNodes("Slice", n, f, "-", "-", 0, "-", <<>>)
    /\ UNCHANGED <<heap, live, fatal, everVal, everOpt>>

\* s[i] = node on the slice the caller holds: a run-time panic out of
\* range, else a write to the array, which a container sharing it shows.
WriteView(i, node) ==
    /\ Running
    /\ last' = [NoCall EXCEPT !.op = "WriteView", !.n = view.of[1],
                              !.f = view.of[2], !.i = i, !.x = node]
    /\ IF ~(0 <= i /\ i < Len(view.elems))
       THEN /\ fatal' = "panic"
            /\ UNCHANGED <<heap, live, everVal, everOpt, view>>
       ELSE /\ view' = [view EXCEPT !.elems[i + 1] = node]
            /\ heap' = IF view.of = NoLoc THEN heap
                       ELSE WriteCell(heap, view.of[1], view.of[2],
                                [SlicePtr(heap, view.of[1], view.of[2]).elems
                                     EXCEPT ![i + 1] = node])
            /\ UNCHANGED <<live, fatal, everVal, everOpt>>

\* Set keeping a cell for an empty s.
SetPtrKeepsEmpty(s) == PtrTo(s)

\* Set: n.slice = nil for an empty s, else n.slice = &s.
SetPtr(s) == IF Len(s) = 0 THEN NilSlicePtr ELSE PtrTo(s)

\* Set returning at once for an empty s.
SetSkipsEmpty(n, f, s) ==
    /\ Running
    /\ n \in live
    /\ heap' = IF Len(s) = 0 THEN heap ELSE AssignNew(heap, n, f, SetPtr(s))
    /\ Total(heap') <= MaxTotal
    /\ last' = CallNodes("Set", n, f, "-", "-", 0, "-", s)
    /\ view' \in ViewsAfter(view, heap, last')
    /\ UNCHANGED <<live, fatal, everVal, everOpt>>

Set(n, f, s) ==
    /\ Running
    /\ n \in live
    /\ heap' = AssignNew(heap, n, f, SetPtr(s))
    /\ Total(heap') <= MaxTotal
    /\ last' = CallNodes("Set", n, f, "-", "-", 0, "-", s)
    /\ view' \in ViewsAfter(view, heap, last')
    /\ UNCHANGED <<live, fatal, everVal, everOpt>>

\* Set1: n.slice = &[]*Node{node}.
Set1(n, f, node) ==
    /\ Running
    /\ n \in live
    /\ heap' = AssignNew(heap, n, f, PtrTo(<<node>>))
    /\ Total(heap') <= MaxTotal
    /\ last' = CallNodes("Set1", n, f, "-", "-", 0, node, <<>>)
    /\ view' \in ViewsAfter(view, heap, last')
    /\ UNCHANGED <<live, fatal, everVal, everOpt>>

\* MoveNodes without n2.slice = nil.
MoveNodesCopies(h, n, f, n2, f2) == AssignPtr(h, n, f, n2, f2)

\* MoveNodes: n.slice = n2.slice, then n2.slice = nil.
MoveNodesHeap(h, n, f, n2, f2) ==
    LET h1 == AssignPtr(h, n, f, n2, f2)
    IN  AssignNew(h1, n2, f2, NilSlicePtr)

MoveNodes(n, f, n2, f2) ==
    /\ Running
    /\ n \in live /\ n2 \in live
    /\ heap' = MoveNodesHeap(heap, n, f, n2, f2)
    /\ last' = CallNodes("MoveNodes", n, f, n2, f2, 0, "-", <<>>)
    /\ view' \in ViewsAfter(view, heap, last')
    /\ UNCHANGED <<live, fatal, everVal, everOpt>>

\* SetIndex storing the new element in a copy of the slice, which the
\* container then points to.
SetIndexOnCopy(n, f, i, node) ==
    /\ Running
    /\ n \in live
    /\ last' = CallNodes("SetIndex", n, f, "-", "-", i, node, <<>>)
    /\ IF Deref(heap[n][f], i).panic
       THEN /\ fatal' = "panic"
            /\ UNCHANGED <<heap, live, everVal, everOpt, view>>
       ELSE /\ heap' = AssignNew(heap, n, f,
                   PtrTo([SlicePtr(heap, n, f).elems EXCEPT ![i + 1] = node]))
            /\ view' = IF view.of = <<n, f>> THEN Stale(view) ELSE view
            /\ UNCHANGED <<live, fatal, everVal, everOpt>>

\* SetIndex: (*n.slice)[i] = node, through the pointer the copied receiver
\* holds.
SetIndex(n, f, i, node) ==
    /\ Running
    /\ n \in live
    /\ last' = CallNodes("SetIndex", n, f, "-", "-", i, node, <<>>)
    /\ view' \in ViewsAfter(view, heap, last')
    /\ IF Deref(heap[n][f], i).panic
       THEN /\ fatal' = "panic"
            /\ UNCHANGED <<heap, live, everVal, everOpt>>
       ELSE /\ heap' = WriteCell(heap, n, f,
                   [SlicePtr(heap, n, f).elems EXCEPT ![i + 1] = node])
            /\ UNCHANGED <<live, fatal, everVal, everOpt>>

\* Append putting the new entries in front of the old ones.
AppendPtrInFront(p, a) ==
    IF p.nil
    THEN IF Len(a) > 0 THEN PtrTo(a) ELSE p
    ELSE [p EXCEPT !.elems = a \o p.elems]

\* Append storing nothing in a container whose pointer is nil.
AppendPtrDropsFirst(p, a) ==
    IF p.nil THEN p ELSE [p EXCEPT !.elems = p.elems \o a]

\* Append: a nil n.slice becomes &a when a has elements and stays nil when
\* it has none; otherwise *n.slice = append(*n.slice, a...).
AppendPtr(p, a) ==
    IF p.nil
    THEN IF Len(a) > 0 THEN PtrTo(a) ELSE p
    ELSE [p EXCEPT !.elems = p.elems \o a]

NodesAppend(n, f, a) ==
    /\ Running
    /\ n \in live
    /\ heap' = IF SlicePtr(heap, n, f).nil
               THEN AssignNew(heap, n, f, AppendPtr(SlicePtr(heap, n, f), a))
               ELSE WriteCell(heap, n, f, AppendPtr(SlicePtr(heap, n, f), a).elems)
    /\ Total(heap') <= MaxTotal
    /\ last' = CallNodes("Append", n, f, "-", "-", 0, "-", a)
    /\ view' \in ViewsAfter(view, heap, last')
    /\ UNCHANGED <<live, fatal, everVal, everOpt>>

\* AppendNodes without the case for a nil n.slice: the default case runs
\* and finds no slice to append to.
AppendNodesNoNilCase(h, n, f, n2, f2) ==
    LET h1 == CASE SlicePtr(h, n2, f2).nil -> h
                [] SlicePtr(h, n, f).nil -> h
                [] OTHER ->
                       WriteCell(h, n, f,
                           SlicePtr(h, n, f).elems \o SlicePtr(h, n2, f2).elems)
    IN  AssignNew(h1, n2, f2, NilSlicePtr)

\* AppendNodes without the final n2.slice = nil.
AppendNodesKeepsSrc(h, n, f, n2, f2) ==
    CASE SlicePtr(h, n2, f2).nil -> h
      [] SlicePtr(h, n, f).nil -> AssignPtr(h, n, f, n2, f2)
      [] OTHER ->
             WriteCell(h, n, f,
                 SlicePtr(h, n, f).elems \o SlicePtr(h, n2, f2).elems)

\* AppendNodes: the switch, then n2.slice = nil.
AppendNodesHeap(h, n, f, n2, f2) ==
    LET h1 == CASE SlicePtr(h, n2, f2).nil -> h
                [] SlicePtr(h, n, f).nil -> AssignPtr(h, n, f, n2, f2)
                [] OTHER ->
                       WriteCell(h, n, f,
                           SlicePtr(h, n, f).elems \o SlicePtr(h, n2, f2).elems)
    IN  AssignNew(h1, n2, f2, NilSlicePtr)

AppendNodes(n, f, n2, f2) ==
    /\ Running
    /\ n \in live /\ n2 \in live
    /\ heap' = AppendNodesHeap(heap, n, f, n2, f2)
    /\ last' = CallNodes("AppendNodes", n, f, n2, f2, 0, "-", <<>>)
    /\ view' \in ViewsAfter(view, heap, last')
    /\ UNCHANGED <<live, fatal, everVal, everOpt>>

\* The indices tried: one below 0 up to one past the largest length.
Indices == (0 - 1)..MaxTotal

Next ==
    \/ \E n \in ContNodes : NewNode(n)
    \/ \E n \in ContNodes, u \in Payloads \cup {"nil"} : SetVal(n, MkVal(u))
    \/ \E n \in ContNodes, x \in Payloads \cup {"nil"} : SetOpt(n, x)

Spec == Init /\ [][Next]_vars

NextNodes ==
    \/ \E n \in ContNodes : NewNode(n)
    \/ \E c \in Conts, s \in SeqsUpTo(live, MaxTotal) : Set(c[1], c[2], s)
    \/ \E c \in Conts, node \in live : Set1(c[1], c[2], node)
    \/ \E c \in Conts, c2 \in Conts : MoveNodes(c[1], c[2], c2[1], c2[2])
    \/ \E c \in Conts, i \in Indices, node \in live :
           SetIndex(c[1], c[2], i, node)
    \/ \E c \in Conts, a \in SeqsUpTo(live, MaxTotal) :
           NodesAppend(c[1], c[2], a)
    \/ \E c \in Conts, c2 \in Conts : AppendNodes(c[1], c[2], c2[1], c2[2])

SpecNodes == Init /\ [][NextNodes]_vars

\* Runs that build a graph of nodes and change the nodes in it.
NextTree ==
    \/ \E n \in NodeIds : NewNode(n)
    \/ \E n \in NodeIds, m \in live \cup {"nil"} : SetLeft(n, m)
    \/ \E n \in NodeIds, t \in Types \cup {"nil"} : SetType(n, t)
    \/ \E n \in NodeIds, u \in Payloads : SetVal(n, MkVal(u))

SpecTree == Init /\ [][NextTree]_vars

\* The containers of the runs in which a caller holds a slice.
ViewConts == {<<"n1", "List">>, <<"n2", "Nbody">>}

\* Container calls with a caller that takes a slice and writes through it.
NextView ==
    \/ \E n \in ContNodes : NewNode(n)
    \/ \E c \in ViewConts, s \in SeqsUpTo(live, MaxTotal) : Set(c[1], c[2], s)
    \/ \E c \in ViewConts, node \in live : Set1(c[1], c[2], node)
    \/ \E c \in ViewConts, c2 \in ViewConts :
           MoveNodes(c[1], c[2], c2[1], c2[2])
    \/ \E c \in ViewConts, i \in Indices, node \in live :
           SetIndex(c[1], c[2], i, node)
    \/ \E c \in ViewConts, a \in SeqsUpTo(live, MaxTotal) :
           NodesAppend(c[1], c[2], a)
    \/ \E c \in ViewConts, c2 \in ViewConts :
           AppendNodes(c[1], c[2], c2[1], c2[2])
    \/ \E c \in ViewConts : TakeSlice(c[1], c[2])
    \/ \E i \in Indices, node \in live : WriteView(i, node)

SpecView == Init /\ [][NextView]_vars

----------------------------------------------------------------------------
(* The payload slot: Val, SetVal, Opt, SetOpt (checked under Spec).        *)

NoVal == MkVal("nil")

\* C1: in every reachable state Val() and Opt() of a node never both report
\* a payload; a node on which SetVal has succeeded never reads as optimizer
\* data, and a node on which SetOpt stored data never reads as a value.
C1_PayloadOneKind ==
    \A n \in NodeIds :
        /\ ~(Val(heap[n]) # NoVal /\ Opt(heap[n]) # "nil")
        /\ n \in everVal => Opt(heap[n]) = "nil"
        /\ n \in everOpt => Val(heap[n]) = NoVal

C1_Witness ==
    \E n, m \in NodeIds :
        /\ n \in everVal /\ Val(heap[n]) # NoVal
        /\ m \in everOpt /\ Opt(heap[m]) # "nil"

\* C2: a SetVal(v) that returns leaves Val() = v and Opt() = nil, and every
\* later SetOpt(x) with x # nil on that node is fatal.
C2_AfterSetVal ==
    [][\A n \in NodeIds :
          /\ (last'.op = "SetVal" /\ last'.n = n /\ fatal' = "none")
                => /\ Val(heap'[n]) = MkVal(last'.x)
                   /\ Opt(heap'[n]) = "nil"
          /\ (n \in everVal /\ last'.op = "SetOpt" /\ last'.n = n
                /\ last'.x # "nil")
                => fatal' # "none"]_vars

C2_Witness ==
    /\ last.op = "SetOpt" /\ last.x # "nil" /\ last.n \in everVal
    /\ fatal = "have Val"
    /\ Val(heap[last.n]) # NoVal

\* C3: a SetOpt(x) with x # nil that returns leaves Opt() = x and Val() empty,
\* and every later SetVal(v) on that node is fatal, whatever v is.
C3_AfterSetOpt ==
    [][\A n \in NodeIds :
          /\ (last'.op = "SetOpt" /\ last'.n = n /\ last'.x # "nil"
                /\ fatal' = "none")
                => /\ Opt(heap'[n]) = last'.x
                   /\ Val(heap'[n]) = NoVal
          /\ (n \in everOpt /\ last'.op = "SetVal" /\ last'.n = n)
                => fatal' # "none"]_vars

C3_Witness ==
    /\ last.op = "SetVal" /\ last.n \in everOpt
    /\ fatal = "have Opt"
    /\ Opt(heap[last.n]) # "nil"

\* C4: SetOpt(nil) is never fatal, whatever the marker; after it Opt() is
\* nil; and on a value-set node Val() is what it was before the call.
C4_SetOptNilNeverFails ==
    [][\A n \in NodeIds :
          (last'.op = "SetOpt" /\ last'.n = n /\ last'.x = "nil")
             => /\ fatal' = "none"
                /\ Opt(heap'[n]) = "nil"
                /\ heap[n].hasVal = 1 => Val(heap'[n]) = Val(heap[n])]_vars

C4_Witness ==
    /\ last.op = "SetOpt" /\ last.x = "nil" /\ fatal = "none"
    /\ last.n \in everVal /\ Val(heap[last.n]) # NoVal
    /\ everOpt # {}

\* C5 as stated: SetOpt(nil) leaves the marker and the slot E as they were,
\* in each of the three marker states.
C5_SetOptNilNoOp ==
    [][\A n \in NodeIds :
          (last'.op = "SetOpt" /\ last'.n = n /\ last'.x = "nil")
             => /\ heap'[n].hasVal = heap[n].hasVal
                /\ heap'[n].E = heap[n].E]_vars

\* C5 amended: SetOpt(nil) never changes the marker; it leaves the slot E as
\* it was when the marker is unset or value-set, and sets E to nil when the
\* marker is optimizer-data-set.
C5_SetOptNilClearsOpt ==
    [][\A n \in NodeIds :
          (last'.op = "SetOpt" /\ last'.n = n /\ last'.x = "nil")
             => /\ heap'[n].hasVal = heap[n].hasVal
                /\ heap[n].hasVal >= 0 => heap'[n].E = heap[n].E
                /\ heap[n].hasVal = 0 - 1 => heap'[n].E = "nil"]_vars

C5_Witness ==
    /\ last.op = "SetOpt" /\ last.x = "nil" /\ fatal = "none"
    /\ last.n \in everOpt
    /\ heap[last.n].hasVal = 0 - 1 /\ heap[last.n].E = "nil"

----------------------------------------------------------------------------
(* The Nodes container (checked under SpecNodes).                          *)

\* The receiver and the argument of the last call, before or after it.
Dst(h) == h[last.n][last.f]

Src(h) == h[last.n2][last.f2]

TwoContainers == <<last.n, last.f>> # <<last.n2, last.f2>>

\* C6: a freshly constructed node has Val() empty, Opt() nil and Len() = 0
\* for each of Ninit, Nbody, List and Rlist.
C6_FreshNode ==
    last.op = "NewNode"
        => /\ Val(heap[last.n]) = NoVal
           /\ Opt(heap[last.n]) = "nil"
           /\ \A f \in SeqFields : NodesLen(heap[last.n][f]) = 0

C6_Witness ==
    /\ last.op = "NewNode" /\ last.n = "n2"
    /\ \E c \in Conts : c[1] = "n1" /\ NodesLen(heap[c[1]][c[2]]) > 0

\* C7: Append(a1..ak) on a container with contents S makes the contents
\* S followed by a1..ak: Len() grows by k, Index(i), First() and Second()
\* return the elements by position, and Append() of nothing changes nothing.
C7_Append ==
    [][last'.op = "Append" =>
          LET old == Slice(heap[last'.n][last'.f])
              new == heap'[last'.n][last'.f]
              all == old \o last'.a
          IN  /\ Slice(new) = all
              /\ NodesLen(new) = Len(old) + Len(last'.a)
              /\ \A i \in 0..(Len(all) - 1) : Index(new, i) = Returns(all[i + 1])
              /\ Len(all) >= 1 => First(new) = Returns(all[1])
              /\ Len(all) >= 2 => Second(new) = Returns(all[2])
              /\ Len(last'.a) = 0 => heap' = heap]_vars

C7_Witness ==
    /\ last.op = "Append" /\ Len(last.a) = 2
    /\ NodesLen(Dst(heap)) = 3
    /\ Index(Dst(heap), 1) = Returns(last.a[1])
    /\ Slice(Dst(heap))[1] # last.a[1]

\* C8: dst.MoveNodes(src), for two containers in any states, leaves dst with
\* exactly the elements src held before the call, in order, and src.Len() = 0.
C8_MoveNodes ==
    [][(last'.op = "MoveNodes"
          /\ <<last'.n, last'.f>> # <<last'.n2, last'.f2>>)
          => /\ Slice(heap'[last'.n][last'.f]) = Slice(heap[last'.n2][last'.f2])
             /\ NodesLen(heap'[last'.n2][last'.f2]) = 0]_vars

C8_Witness ==
    /\ last.op = "MoveNodes" /\ TwoContainers
    /\ NodesLen(Dst(heap)) = 2
    /\ NodesLen(Src(heap)) = 0
    /\ Total(heap) = 3

\* C9: dst.AppendNodes(src), for two containers in any states (either may be
\* empty), leaves dst with its previous contents followed by the previous
\* contents of src, and src.Len() = 0.
C9_AppendNodes ==
    [][(last'.op = "AppendNodes"
          /\ <<last'.n, last'.f>> # <<last'.n2, last'.f2>>)
          => /\ Slice(heap'[last'.n][last'.f])
                   = Slice(heap[last'.n][last'.f])
                        \o Slice(heap[last'.n2][last'.f2])
             /\ NodesLen(heap'[last'.n2][last'.f2]) = 0]_vars

C9_Witness ==
    /\ last.op = "AppendNodes" /\ TwoContainers
    /\ NodesLen(Dst(heap)) = 3
    /\ Slice(Dst(heap))[1] # Slice(Dst(heap))[3]
    /\ NodesLen(Src(heap)) = 0

\* Index, Addr, First and Second panic on every position outside 0..Len()-1
\* of the container c.
ReadsPanic(c) ==
    /\ \A i \in Indices :
          i \notin 0..(NodesLen(c) - 1) => Index(c, i).panic /\ Addr(c, i).panic
    /\ NodesLen(c) < 1 => First(c).panic
    /\ NodesLen(c) < 2 => Second(c).panic

\* The containers the call l names: the fields of a new node, or the
\* receiver and, when there is one, the argument.
Named(l) ==
    IF l.op = "NewNode" THEN {l.n} \X SeqFields
    ELSE {<<l.n, l.f>>} \cup (IF l.n2 = "-" THEN {} ELSE {<<l.n2, l.f2>>})

\* C10: Index(i), SetIndex(i, node), Addr(i), First() and Second() are fatal
\* whenever the position is not in 0..Len()-1, in every state a call leaves
\* a container in (never set, emptied or populated), and a fatal SetIndex
\* leaves the container as it was.
C10_OutOfBounds ==
    [][/\ \A c \in Named(last') : ReadsPanic(heap'[c[1]][c[2]])
       /\ (last'.op = "SetIndex"
             /\ last'.i \notin 0..(NodesLen(heap[last'.n][last'.f]) - 1))
             => fatal' # "none" /\ heap' = heap]_vars

C10_Witness ==
    /\ last.op = "SetIndex" /\ fatal = "panic"
    /\ NodesLen(Dst(heap)) = 2 /\ last.i = 2
    /\ \E c \in Conts : heap[c[1]][c[2]].slice.nil

----------------------------------------------------------------------------
(* The Nodes container, continued (checked under SpecNodes).               *)

Locs == NodeIds \X SeqFields

\* The contents of container c after Append(a...) and then Append(b...).
AfterAppends(c, a, b) ==
    Slice([slice |-> AppendPtr(AppendPtr(c.slice, a), b)])

\* C11: Set with an empty slice leaves Len() = 0 whatever the container
\* held, and Append calls made from then on give the contents they give on
\* a freshly constructed container: the appended entries, in order.
C11_SetEmptyResets ==
    [][(last'.op = "Set" /\ Len(last'.a) = 0) =>
          LET new == heap'[last'.n][last'.f]
          IN  /\ NodesLen(new) = 0
              /\ \A a, b \in SeqsUpTo(NodeIds, 2) :
                    /\ AfterAppends(new, a, b) = a \o b
                    /\ AfterAppends(new, a, b) = AfterAppends(ZeroNodes, a, b)]_vars

C11_Witness ==
    /\ last.op = "Set" /\ Len(last.a) = 0 /\ last.was = 2
    /\ NodesLen(Dst(heap)) = 0
    /\ Total(heap) = 1

\* C12: after dst.MoveNodes(src) or dst.AppendNodes(src) on two containers
\* the two hold no common slice cell, and an Append, Set, Set1 or SetIndex
\* on a container leaves the contents and length of every other one as
\* they were.
C12_NoSharing ==
    [][/\ (last'.op \in {"MoveNodes", "AppendNodes"}
             /\ <<last'.n, last'.f>> # <<last'.n2, last'.f2>>)
             => /\ <<last'.n2, last'.f2>> \notin Cell(heap', last'.n, last'.f)
                /\ <<last'.n, last'.f>> \notin Cell(heap', last'.n2, last'.f2)
       /\ last'.op \in {"Append", "Set", "Set1", "SetIndex"}
             => \A c \in Locs \ {<<last'.n, last'.f>>} :
                   /\ Slice(heap'[c[1]][c[2]]) = Slice(heap[c[1]][c[2]])
                   /\ NodesLen(heap'[c[1]][c[2]]) = NodesLen(heap[c[1]][c[2]])]_vars

C12_Witness ==
    /\ last.op = "MoveNodes" /\ TwoContainers
    /\ last.was = 1 /\ NodesLen(Dst(heap)) = 2
    /\ Cell(heap, last.n, last.f) = {<<last.n, last.f>>}
    /\ Src(heap).slice.nil

\* The plain owned sequences that the containers in S stand for.
Abs(h, S) == [c \in S |-> Slice(h[c[1]][c[2]])]

\* Index(i) of a plain sequence q.
PlainIndex(q, i) ==
    IF 0 <= i /\ i < Len(q) THEN Returns(q[i + 1]) ELSE Panics

\* A plain sequence operation fails exactly when SetIndex is out of range.
PlainPanics(pl, c) ==
    /\ c.op = "SetIndex"
    /\ ~(0 <= c.i /\ c.i < Len(pl[<<c.n, c.f>>]))

\* The call c made on plain sequences pl.
PlainAfter(pl, c) ==
    LET dst == <<c.n, c.f>>
        src == <<c.n2, c.f2>>
    IN  CASE c.op = "Set" -> [pl EXCEPT ![dst] = c.a]
          [] c.op = "Set1" -> [pl EXCEPT ![dst] = <<c.x>>]
          [] c.op = "Append" -> [pl EXCEPT ![dst] = pl[dst] \o c.a]
          [] c.op = "SetIndex" ->
                 IF PlainPanics(pl, c) THEN pl
                 ELSE [pl EXCEPT ![dst][c.i + 1] = c.x]
          [] c.op = "MoveNodes" ->
                 [[pl EXCEPT ![dst] = pl[src]] EXCEPT ![src] = <<>>]
          [] c.op = "AppendNodes" ->
                 [[pl EXCEPT ![dst] = pl[dst] \o pl[src]] EXCEPT ![src] = <<>>]
          [] OTHER -> pl

ContainerOps ==
    {"Set", "Set1", "Append", "SetIndex", "MoveNodes", "AppendNodes"}

\* C15: the containers simulate plain owned sequences that start empty:
\* every Set, Set1, Append, SetIndex, MoveNodes and AppendNodes call changes
\* the contents as the same call changes the plain sequences, fails exactly
\* when the plain call fails, and afterwards Len(), Slice() and Index(i)
\* of the containers it names are those of their plain sequences, every
\* other container being left as it was.
C15_PlainSequence ==
    [][last'.op \in ContainerOps =>
          \A pl \in {PlainAfter(Abs(heap, Named(last')), last')} :
              /\ Abs(heap', Named(last')) = pl
              /\ (fatal' = "panic")
                     <=> PlainPanics(Abs(heap, Named(last')), last')
              /\ \A c \in Named(last'), i \in Indices :
                    /\ NodesLen(heap'[c[1]][c[2]]) = Len(pl[c])
                    /\ Index(heap'[c[1]][c[2]], i) = PlainIndex(pl[c], i)
              /\ \A c \in Locs \ Named(last') :
                    heap'[c[1]][c[2]] = heap[c[1]][c[2]]]_vars

C15_Witness ==
    /\ last.op = "AppendNodes" /\ TwoContainers
    /\ last.was = 1
    /\ Abs(heap, Locs)[<<last.n, last.f>>] = <<"n2", "n1", "n1">>
    /\ Abs(heap, Locs)[<<last.n2, last.f2>>] = <<>>

\* C14: a container holds a slice cell only while it has at least one
\* element: every container with Len() = 0 has a nil slice pointer.
C14_EmptyIsNil ==
    \A c \in Locs :
        /\ ~heap[c[1]][c[2]].slice.nil => NodesLen(heap[c[1]][c[2]]) >= 1
        /\ NodesLen(heap[c[1]][c[2]]) = 0 => heap[c[1]][c[2]] = ZeroNodes

C14_Witness ==
    /\ last.op = "Set" /\ Len(last.a) = 0 /\ last.was = 3
    /\ Dst(heap) = ZeroNodes

\* C20: n.MoveNodes(&n) and n.AppendNodes(&n), the same container as
\* destination and source, leave Len() = 0 whatever it held.
C20_SelfMoveEmpties ==
    [][(last'.op \in {"MoveNodes", "AppendNodes"}
          /\ <<last'.n, last'.f>> = <<last'.n2, last'.f2>>)
          => NodesLen(heap'[last'.n][last'.f]) = 0]_vars

C20_Witness ==
    /\ last.op = "AppendNodes" /\ ~TwoContainers
    /\ last.was = 3
    /\ NodesLen(Dst(heap)) = 0

----------------------------------------------------------------------------
(* Shared children (checked under SpecTree).                               *)

\* The nodes whose Left is x, x itself left out.
Parents(h, x) == {p \in live \ {x} : h[p].Left = x}

\* C13: when two parents hold the same node X as Left, a SetVal on X or a
\* change of X's Type leaves both Left references on X, both parents read
\* the new value through them, and the parents' own fields stay as they
\* were.
C13_SharedChild ==
    [][(last'.op \in {"SetVal", "SetType"} /\ fatal' = "none") =>
          \A p1, p2 \in Parents(heap, last'.n) :
              /\ heap'[p1].Left = last'.n /\ heap'[p2].Left = last'.n
              /\ heap'[heap'[p1].Left] = heap'[heap'[p2].Left]
              /\ last'.op = "SetVal" =>
                     /\ Val(heap'[heap'[p1].Left]) = MkVal(last'.x)
                     /\ Val(heap'[heap'[p2].Left]) = MkVal(last'.x)
              /\ last'.op = "SetType" =>
                     /\ heap'[heap'[p1].Left].Type = last'.x
                     /\ heap'[heap'[p2].Left].Type = last'.x
              /\ heap'[p1] = heap[p1] /\ heap'[p2] = heap[p2]]_vars

C13_Witness ==
    /\ last.op = "SetVal" /\ last.x = "p2"
    /\ Cardinality(Parents(heap, last.n)) = 2
    /\ \A p \in Parents(heap, last.n) :
          /\ Val(heap[heap[p].Left]) = MkVal("p2")
          /\ heap[p].hasVal = 0
    /\ heap[last.n].Type = "T1"

----------------------------------------------------------------------------
(* Slices handed out by Slice() (checked under SpecView).                  *)

\* The slice the caller holds shares the backing array of container c.
Shares(v, c) == v.of = c /\ c # NoLoc

\* C16: SetIndex(i, node) with 0 <= i < Len() replaces in place: Index(i)
\* is node afterwards, Len() and every other position are as before, and a
\* slice got from Slice() that shares the container's array shows node at
\* i; a write s[i] = node through such a slice shows in Index(i).
C16_InPlace ==
    [][/\ (last'.op = "SetIndex" /\ fatal' = "none") =>
             \A old \in {heap[last'.n][last'.f]},
                new \in {heap'[last'.n][last'.f]} :
                 /\ Index(new, last'.i) = Returns(last'.x)
                 /\ NodesLen(new) = NodesLen(old)
                 /\ \A j \in Indices \ {last'.i} : Index(new, j) = Index(old, j)
                 /\ (Shares(view, <<last'.n, last'.f>>)
                         /\ last'.i < Len(view.elems))
                        => /\ Shares(view', <<last'.n, last'.f>>)
                           /\ view'.elems[last'.i + 1] = last'.x
                           /\ Len(view'.elems) = Len(view.elems)
       /\ (last'.op = "WriteView" /\ fatal' = "none" /\ view.of # NoLoc) =>
             /\ Index(heap'[view.of[1]][view.of[2]], last'.i)
                    = Returns(last'.x)
             /\ NodesLen(heap'[view.of[1]][view.of[2]])
                    = NodesLen(heap[view.of[1]][view.of[2]])]_vars

C16_Witness ==
    /\ last.op = "SetIndex" /\ fatal = "none"
    /\ Shares(view, <<last.n, last.f>>)
    /\ last.i = 1 /\ last.x = "n2"
    /\ view.elems = <<"n1", "n2">>
    /\ Slice(Dst(heap)) = <<"n1", "n2", "n1">>

----------------------------------------------------------------------------
(* The payload slot, continued (checked under Spec).                       *)

\* C17: SetVal on a node whose marker is unset or value-set is never fatal,
\* leaves the marker value-set and Val() equal to the value just given, so a
\* second SetVal overwrites the first.
C17_SetValOverwrites ==
    [][\A n \in NodeIds :
          (last'.op = "SetVal" /\ last'.n = n /\ heap[n].hasVal >= 0)
             => /\ fatal' = "none"
                /\ heap'[n].hasVal = 1
                /\ Val(heap'[n]) = MkVal(last'.x)]_vars

C17_Witness ==
    /\ last.op = "SetVal" /\ fatal = "none"
    /\ last.x = "p2" /\ Val(heap[last.n]) = MkVal("p2")
    /\ \E m \in NodeIds : m # last.n /\ Val(heap[m]) = MkVal("p1")

\* C18: a SetVal or SetOpt that is fatal leaves the marker and the payload
\* slot of the node, and so Val() and Opt(), as they were before the call.
C18_FatalStoresNothing ==
    [][\A n \in NodeIds :
          (last'.op \in {"SetVal", "SetOpt"} /\ last'.n = n
             /\ fatal' # "none")
             => /\ heap'[n].hasVal = heap[n].hasVal
                /\ heap'[n].E = heap[n].E
                /\ Val(heap'[n]) = Val(heap[n])
                /\ Opt(heap'[n]) = Opt(heap[n])]_vars

C18_Witness ==
    /\ last.op = "SetOpt" /\ fatal = "have Val"
    /\ last.x = "p2" /\ Val(heap[last.n]) = MkVal("p1")
    /\ Opt(heap[last.n]) = "nil"

\* C19: a marker that is value-set or optimizer-data-set keeps its kind in
\* every later state; after SetOpt(x), x # nil, and then SetOpt(nil), Opt()
\* is nil and a SetVal is still fatal.
C19_MarkerNeverUnset ==
    [][\A n \in NodeIds :
          /\ heap[n].hasVal # 0 => heap'[n].hasVal = heap[n].hasVal
          /\ (n \in everOpt /\ last.op = "SetOpt" /\ last.n = n
                /\ last.x = "nil")
                => /\ Opt(heap[n]) = "nil"
                   /\ (last'.op = "SetVal" /\ last'.n = n) => fatal' # "none"]_vars

C19_Witness ==
    /\ last.op = "SetVal" /\ fatal = "have Opt"
    /\ last.n \in everOpt
    /\ heap[last.n].hasVal = 0 - 1 /\ heap[last.n].E = "nil"

====
